---- MODULE Spec2Model ----
(***************************************************************************)
(* Model of frontend_ui/src/App.js: the localStorage token utilities, the  *)
(* fetch wrapper apiRequest, the useAuth hook, the RequireAuth route guard *)
(* and the three submit flows (login, contact, admin save).                *)
(*                                                                         *)
(* JavaScript values are records tagged with their type, so that null,     *)
(* undefined, the empty string and a non-empty string stay distinct.       *)
(***************************************************************************)
EXTENDS Naturals, FiniteSets, Sequences, Bags, TLC

VARIABLES
    localStorage,   \* the browser's localStorage: a function from the keys present to strings
    available,      \* whether the localStorage object can be accessed at all
    location,       \* router location: [pathname, from]; from is location.state?.from?.pathname
    page,           \* the route element React has mounted: "Landing", "LoginPage", "AdminPage"
    theme,          \* App's theme state
    ui,             \* the useState cells of the mounted page
    inflight,       \* bag of requests whose fetch promise has not settled
    wire,           \* the request put on the wire by the last step (sent = FALSE if none)
    ev,             \* what the last step did and observed
    lastStoreOp     \* history: the last setToken / clearToken call

vars == <<localStorage, available, location, page, theme, ui, inflight, wire, ev, lastStoreOp>>

----------------------------------------------------------------------------
(* Bounds *)

\* Most requests that may be outstanding at once.
MaxInflight == 2

----------------------------------------------------------------------------
(* JavaScript values *)

JsNull == [type |-> "null"]
JsUndefined == [type |-> "undefined"]
JsString(s) == [type |-> "string", value |-> s]
JsObject(tokenField, statusField) ==
    [type |-> "object", token |-> tokenField, status |-> statusField]

\* JavaScript truthiness: null, undefined and '' are falsy; objects and
\* non-empty strings are truthy.
Truthy(v) ==
    \/ v.type = "object"
    \/ v.type = "string" /\ v.value # ""

\* Property read v.name for name in {token, status}; a string has neither.
GetField(v, name) ==
    IF v.type = "object"
    THEN (IF name = "token" THEN v.token ELSE v.status)
    ELSE JsUndefined

\* Credential strings the authentication endpoint may issue.
IssuedTokens == {"abc", "xyz"}
\* Strings a caller may hand to setToken.
Tokens == IssuedTokens \cup {""}

----------------------------------------------------------------------------
(* Token utilities, App.js lines 8-26 *)

TOKEN_KEY == "auth_token"

\* Storage.getItem: the value under the key, null when the key is absent.
getItem(ls, key) ==
    IF key \in DOMAIN ls THEN JsString(ls[key]) ELSE JsNull

\* Storage.setItem: creates or replaces the entry under the key.  The values
\* stored here are strings already, so its conversion to string is not
\* exercised.
setItem(ls, key, value) ==
    [k \in DOMAIN ls \cup {key} |-> IF k = key THEN value ELSE ls[k]]

\* Storage.removeItem: drops the entry under the key, if any.
removeItem(ls, key) ==
    [k \in DOMAIN ls \ {key} |-> ls[k]]

\* Variant of clearToken that removes another key than the one setToken uses.
clearToken_WrongKey(ls) == removeItem(ls, "token")

getToken(ls) == getItem(ls, TOKEN_KEY)

setToken(ls, token) == setItem(ls, TOKEN_KEY, token)

clearToken(ls) == removeItem(ls, TOKEN_KEY)

EmptyStorage == [k \in {} |-> ""]

----------------------------------------------------------------------------
(* apiRequest, App.js lines 32-62 *)

NoHeaders == [k \in {} |-> ""]

\* Headers.set: names are case-insensitive and kept in lower case.
HeadersSet(h, name, value) ==
    [k \in DOMAIN h \cup {name} |-> IF k = name THEN value ELSE h[k]]

\* Lines 38-42: the headers of the outgoing request, from the caller's
\* options.headers and the token read from the store by this call.
RequestHeaders(callerHeaders, token) ==
    LET withType == HeadersSet(callerHeaders, "content-type", "application/json")
    IN IF Truthy(token)
       THEN HeadersSet(withType, "authorization", "Bearer " \o token.value)
       ELSE withType

NoRequest == [sent |-> FALSE, caller |-> NoHeaders, headers |-> NoHeaders]

\* Variant of Send that takes the token from useAuth's state cell, which
\* was read from the store when the page was mounted.
Send_StaleToken(ls, callerHeaders) ==
    [sent |-> TRUE, caller |-> callerHeaders,
     headers |-> RequestHeaders(callerHeaders, ui.tok)]

\* Lines 37-47: what apiRequest puts on the wire.
Send(ls, callerHeaders) ==
    [sent |-> TRUE, caller |-> callerHeaders,
     headers |-> RequestHeaders(callerHeaders, getToken(ls))]

\* What the network may answer: fetch rejects, or a response arrives with a
\* status (ok or not), a content type and a body.
TokenFields == {JsUndefined, JsNull} \cup {JsString(t) : t \in Tokens}
StatusFields == {JsUndefined, JsString("Done")}
JsonValues ==
    {JsNull}
    \cup {JsObject(t, JsUndefined) : t \in TokenFields}
    \cup {JsObject(t, s) : t \in {JsUndefined, JsString("abc")}, s \in StatusFields}
Responses ==
    {[kind |-> "network_error", ok |-> FALSE, json |-> FALSE, valid |-> FALSE, data |-> JsNull]}
    \cup {[kind |-> "response", ok |-> o, json |-> TRUE, valid |-> FALSE, data |-> JsNull] :
            o \in BOOLEAN}
    \cup {[kind |-> "response", ok |-> o, json |-> TRUE, valid |-> TRUE, data |-> d] :
            o \in BOOLEAN, d \in JsonValues}
    \cup {[kind |-> "response", ok |-> o, json |-> FALSE, valid |-> TRUE, data |-> JsString(s)] :
            o \in BOOLEAN, s \in {"", "OK"}}

\* Lines 44-61: how apiRequest settles for a given answer.  fetch rejecting
\* and res.json() failing both reject the promise before the status is
\* looked at; a status outside 2xx throws an Error carrying status and data.
apiRequest(resp) ==
    IF resp.kind = "network_error"
    THEN [threw |-> TRUE, error |-> "network_error", data |-> JsNull]
    ELSE IF resp.json /\ ~resp.valid
    THEN [threw |-> TRUE, error |-> "parse_error", data |-> JsNull]
    ELSE IF ~resp.ok
    THEN [threw |-> TRUE, error |-> "http_error", data |-> resp.data]
    ELSE [threw |-> FALSE, error |-> "-", data |-> resp.data]

----------------------------------------------------------------------------
(* useAuth, App.js lines 254-271 *)

\* Variant of login that tests data.token against undefined and null only,
\* so that an empty token is stored too.
login_AnyStringToken(outcome) ==
    IF outcome.threw
    THEN [ret |-> "throw", store |-> FALSE, token |-> JsUndefined]
    ELSE IF GetField(outcome.data, "token").type = "string"
    THEN [ret |-> "true", store |-> TRUE, token |-> GetField(outcome.data, "token")]
    ELSE [ret |-> "false", store |-> FALSE, token |-> JsUndefined]

\* Lines 258-264: what login does once apiRequest has settled: ret is the
\* value the promise resolves to ("throw" when apiRequest's error propagates),
\* store tells whether setToken(data.token) runs.
login(outcome) ==
    IF outcome.threw
    THEN [ret |-> "throw", store |-> FALSE, token |-> JsUndefined]
    ELSE IF Truthy(outcome.data) /\ Truthy(GetField(outcome.data, "token"))
    THEN [ret |-> "true", store |-> TRUE, token |-> GetField(outcome.data, "token")]
    ELSE [ret |-> "false", store |-> FALSE, token |-> JsUndefined]

----------------------------------------------------------------------------
(* Routing, App.js lines 273-280 and 390-402 *)

Paths == {"/", "/login", "/admin", "/nowhere"}

\* Variant of RequireAuth that renders its children whatever the store holds.
RequireAuth_NoCheck(token) == "Allowed"

\* Lines 274-279: RequireAuth renders its children or a Navigate to /login.
RequireAuth(token) ==
    IF ~Truthy(token) THEN "Redirecting" ELSE "Allowed"

\* Line 277: the Navigate element replaces the location by /login with
\* state { from: location }, location being the one that was requested.
GuardRedirect(requested) ==
    [pathname |-> "/login", from |-> JsString(requested)]

\* Lines 390-402: the element rendered for a location, following the
\* Navigate elements until a page is mounted.
RenderRoute(pathname, from, ls) ==
    IF pathname = "/admin"
    THEN IF RequireAuth(getToken(ls)) = "Allowed"
         THEN [location |-> [pathname |-> "/admin", from |-> from],
               page |-> "AdminPage", guard |-> "Allowed"]
         ELSE [location |-> GuardRedirect(pathname),
               page |-> "LoginPage", guard |-> "Redirecting"]
    ELSE IF pathname = "/login"
    THEN [location |-> [pathname |-> "/login", from |-> from],
          page |-> "LoginPage", guard |-> "-"]
    ELSE IF pathname = "/"
    THEN [location |-> [pathname |-> "/", from |-> from],
          page |-> "Landing", guard |-> "-"]
    ELSE [location |-> [pathname |-> "/", from |-> JsUndefined],
          page |-> "Landing", guard |-> "-"]

\* Variant of FromPath whose default is the landing page.
FromPath_DefaultHome(from) ==
    IF Truthy(from) THEN from.value ELSE "/"

\* Lines 286, 298: where LoginPage goes after a successful login:
\* location.state?.from?.pathname || '/admin'.
FromPath(from) ==
    IF Truthy(from) THEN from.value ELSE "/admin"

----------------------------------------------------------------------------
(* Component state *)

\* The useState initial values of the page components (lines 214, 255,
\* 288-289, 329-331).  The cells of a page that is not mounted keep their
\* initial value; tok is useAuth's token cell, read from the store at mount.
Mount(pg, ls) ==
    [loginStatus |-> "idle", loginError |-> "",
     contactStatus |-> "idle",
     saving |-> FALSE, adminStatus |-> "",
     tok |-> IF pg \in {"LoginPage", "AdminPage"} THEN getToken(ls) ELSE JsNull]

\* The flows whose form lives in a page.
FlowsOf(pg) ==
    IF pg = "LoginPage" THEN {"login"}
    ELSE IF pg = "AdminPage" THEN {"save"}
    ELSE {"contact"}

\* Lines 242, 319, 357: the disabled attribute of the three submit buttons.
LoginDisabled(u) == u.loginStatus = "submitting"
ContactDisabled(u) == u.contactStatus = "submitting"
SaveDisabled(u) == u.saving

\* Requests whose component has been unmounted stay outstanding; their
\* continuation still runs, but its setState calls no longer have an effect.
Orphan(B, flows) ==
    LET dead(r) == IF r.flow \in flows THEN [r EXCEPT !.live = FALSE] ELSE r
        S == {dead(r) : r \in BagToSet(B)}
    IN [s \in S |->
          (IF s.live /\ s.flow \in flows THEN 0 ELSE CopiesIn(s, B))
          + (IF ~s.live /\ s.flow \in flows
             THEN CopiesIn([s EXCEPT !.live = TRUE], B) ELSE 0)]

\* An outstanding request: the flow that issued it, whether the component
\* that issued it is still mounted, and the location.state?.from?.pathname
\* its handler closed over (line 286; undefined for the other flows).
Request(flow, origin) == [flow |-> flow, live |-> TRUE, origin |-> origin]

\* The last step as an observer sees it: the operation, the flow and whether
\* its component was mounted, the answer of the network (status, body and,
\* for a login, the payload's token field), how apiRequest and login settled (error,
\* ret), the guard's decision if the step evaluated the guard, the origin
\* the settled login had recorded and the value a direct getToken returned.
NoEvent ==
    [op |-> "-", flow |-> "-", live |-> FALSE,
     status |-> "-", body |-> "-", token |-> JsUndefined,
     error |-> "-", ret |-> "-", guard |-> "-",
     origin |-> JsUndefined, value |-> JsUndefined]

\* The step in which request r settled with the answer resp.
Settled(r, resp) ==
    [NoEvent EXCEPT
        !.op = "response", !.flow = r.flow, !.live = r.live,
        !.status = IF resp.kind = "network_error" THEN "none"
                   ELSE IF resp.ok THEN "ok" ELSE "not_ok",
        !.body = IF resp.kind = "network_error" THEN "-"
                 ELSE IF resp.json /\ ~resp.valid THEN "unparsable" ELSE "parsed",
        !.token = IF r.flow = "login" THEN GetField(resp.data, "token")
                  ELSE JsUndefined,
        !.error = apiRequest(resp).error]

----------------------------------------------------------------------------
(* Page loads and navigation *)

\* A document load at a path: every component is constructed anew, requests
\* of the previous document are abandoned, the store persists.
PageLoad(pathname, ls, e) ==
    LET r == RenderRoute(pathname, JsUndefined, ls)
    IN /\ location' = r.location
       /\ page' = r.page
       /\ theme' = "light"
       /\ ui' = Mount(r.page, ls)
       /\ inflight' = EmptyBag
       /\ ev' = [e EXCEPT !.guard = r.guard]

\* A client-side render of the route for a location: the page is kept when
\* the same page element stays mounted, otherwise it is replaced.
ClientRender(pathname, from, remount, e) ==
    LET r == RenderRoute(pathname, from, localStorage)
        keep == r.page = page /\ ~remount
    IN /\ location' = r.location
       /\ page' = r.page
       /\ ui' = IF keep THEN ui ELSE Mount(r.page, localStorage)
       /\ inflight' = IF keep THEN inflight ELSE Orphan(inflight, FlowsOf(page))
       /\ ev' = [e EXCEPT !.guard = r.guard]

\* The document is loaded at path p with the store holding ls.
Loaded(ls, avail, p) ==
        LET r == RenderRoute(p, JsUndefined, ls)
        IN /\ localStorage = ls
           /\ available = avail
           /\ location = r.location
           /\ page = r.page
           /\ theme = "light"
           /\ ui = Mount(r.page, ls)
           /\ inflight = EmptyBag
           /\ wire = NoRequest
           /\ ev = [NoEvent EXCEPT !.op = "load", !.guard = r.guard]
           /\ lastStoreOp = [op |-> "none", arg |-> ""]

\* What an earlier session of the application can have left in the store.
InitStores == {EmptyStorage} \cup {setToken(EmptyStorage, t) : t \in IssuedTokens}

Init ==
    \E ls \in InitStores, p \in Paths : Loaded(ls, TRUE, p)

\* The user opens a URL (address bar, bookmark, reload).
OpenUrl ==
    \E p \in Paths :
        /\ PageLoad(p, localStorage, [NoEvent EXCEPT !.op = "load"])
        /\ wire' = NoRequest
        /\ UNCHANGED <<localStorage, available, lastStoreOp>>

\* Line 108: the Admin link of the header navigates to /admin.  A guard
\* redirect unmounts whatever page was shown before /login is rendered.
ClickAdminLink ==
    /\ ClientRender("/admin", JsUndefined,
                    RequireAuth(getToken(localStorage)) = "Redirecting",
                    [NoEvent EXCEPT !.op = "navigate"])
    /\ wire' = NoRequest
    /\ UNCHANGED <<localStorage, available, theme, lastStoreOp>>

\* Lines 384, 109-117: the theme toggle re-renders App and with it the
\* element of the current route.
ToggleTheme ==
    /\ theme' = IF theme = "light" THEN "dark" ELSE "light"
    /\ ClientRender(location.pathname, location.from, FALSE,
                    [NoEvent EXCEPT !.op = "rerender"])
    /\ wire' = NoRequest
    /\ UNCHANGED <<localStorage, available, lastStoreOp>>

----------------------------------------------------------------------------
(* Submit flows *)

\* Variant of LoginSubmitting that forgets setStatus('submitting').
LoginSubmitting_NoFlag(u) == [u EXCEPT !.loginError = ""]

\* Line 294: setStatus('submitting'); setError('').
LoginSubmitting(u) == [u EXCEPT !.loginStatus = "submitting", !.loginError = ""]

\* Variant of LoginSettled whose declined branch forgets setStatus('idle').
LoginSettled_StaysPending(u, ret) ==
    IF ret = "false"
    THEN [u EXCEPT !.loginError = "Invalid credentials"]
    ELSE [u EXCEPT !.loginError = "Login failed", !.loginStatus = "idle"]

\* Lines 297-306: onSubmit once auth.login has settled without success:
\* false is reported as invalid credentials, a thrown error as a failure.
LoginSettled(u, ret) ==
    IF ret = "false"
    THEN [u EXCEPT !.loginError = "Invalid credentials", !.loginStatus = "idle"]
    ELSE [u EXCEPT !.loginError = "Login failed", !.loginStatus = "idle"]

\* Line 220: setStatus('submitting').
ContactSubmitting(u) == [u EXCEPT !.contactStatus = "submitting"]

\* Lines 224-228: success or error, by whether apiRequest threw.
ContactSettled(u, outcome) ==
    IF outcome.threw
    THEN [u EXCEPT !.contactStatus = "error"]
    ELSE [u EXCEPT !.contactStatus = "success"]

\* Line 334: setSaving(true); setStatus('').
SaveSubmitting(u) == [u EXCEPT !.saving = TRUE, !.adminStatus = ""]

\* Lines 338-342: res?.status || 'Saved!', or 'Failed'; finally saving is
\* reset.
SaveSettled(u, outcome) ==
    LET s == GetField(outcome.data, "status")
        text == IF outcome.threw THEN "Failed"
                ELSE IF Truthy(s) THEN s.value ELSE "Saved!"
    IN [u EXCEPT !.adminStatus = text, !.saving = FALSE]

\* Lines 292-296 up to the await: the login form is submitted.
LoginSubmit ==
    /\ page = "LoginPage"
    /\ ~LoginDisabled(ui)
    /\ BagCardinality(inflight) < MaxInflight
    /\ ui' = LoginSubmitting(ui)
    /\ wire' = Send(localStorage, NoHeaders)
    /\ inflight' = inflight (+) SetToBag({Request("login", location.from)})
    /\ ev' = [NoEvent EXCEPT !.op = "submit", !.flow = "login", !.live = TRUE]
    /\ UNCHANGED <<localStorage, available, location, page, theme, lastStoreOp>>

\* Lines 218-223 up to the await: the contact form is submitted.
ContactSubmit ==
    /\ page = "Landing"
    /\ ~ContactDisabled(ui)
    /\ BagCardinality(inflight) < MaxInflight
    /\ ui' = ContactSubmitting(ui)
    /\ wire' = Send(localStorage, NoHeaders)
    /\ inflight' = inflight (+) SetToBag({Request("contact", JsUndefined)})
    /\ ev' = [NoEvent EXCEPT !.op = "submit", !.flow = "contact", !.live = TRUE]
    /\ UNCHANGED <<localStorage, available, location, page, theme, lastStoreOp>>

\* Lines 333-337 up to the await: the admin Save button is clicked.
AdminSave ==
    /\ page = "AdminPage"
    /\ ~SaveDisabled(ui)
    /\ BagCardinality(inflight) < MaxInflight
    /\ ui' = SaveSubmitting(ui)
    /\ wire' = Send(localStorage, NoHeaders)
    /\ inflight' = inflight (+) SetToBag({Request("save", JsUndefined)})
    /\ ev' = [NoEvent EXCEPT !.op = "submit", !.flow = "save", !.live = TRUE]
    /\ UNCHANGED <<localStorage, available, location, page, theme, lastStoreOp>>

\* Lines 258-264 and 297-306 after the await: a login request settles.
\* login stores the token and onSubmit replaces the document by `from`
\* (a document load), or reports the failure in the form if it is mounted.
LoginResponse ==
    \E r \in BagToSet(inflight), resp \in Responses :
        LET outcome == apiRequest(resp)
            l == login(outcome)
            ls == IF l.store THEN setToken(localStorage, l.token.value)
                  ELSE localStorage
            e == [Settled(r, resp) EXCEPT !.ret = l.ret, !.origin = r.origin]
        IN /\ r.flow = "login"
           /\ localStorage' = ls
           /\ lastStoreOp' = IF l.store THEN [op |-> "set", arg |-> l.token.value]
                             ELSE lastStoreOp
           /\ wire' = NoRequest
           /\ IF l.ret = "true"
              THEN PageLoad(FromPath(r.origin), ls, e)
              ELSE /\ inflight' = inflight (-) SetToBag({r})
                   /\ ui' = IF r.live THEN LoginSettled(ui, l.ret) ELSE ui
                   /\ ev' = e
                   /\ UNCHANGED <<location, page, theme>>
           /\ UNCHANGED available

\* Lines 224-228 after the await: a contact request settles.
ContactResponse ==
    \E r \in BagToSet(inflight), resp \in Responses :
        LET outcome == apiRequest(resp)
        IN /\ r.flow = "contact"
           /\ inflight' = inflight (-) SetToBag({r})
           /\ ui' = IF r.live THEN ContactSettled(ui, outcome) ELSE ui
           /\ wire' = NoRequest
           /\ ev' = Settled(r, resp)
           /\ UNCHANGED <<localStorage, available, location, page, theme, lastStoreOp>>

\* Lines 338-343 after the await: an admin save request settles.
SaveResponse ==
    \E r \in BagToSet(inflight), resp \in Responses :
        LET outcome == apiRequest(resp)
        IN /\ r.flow = "save"
           /\ inflight' = inflight (-) SetToBag({r})
           /\ ui' = IF r.live THEN SaveSettled(ui, outcome) ELSE ui
           /\ wire' = NoRequest
           /\ ev' = Settled(r, resp)
           /\ UNCHANGED <<localStorage, available, location, page, theme, lastStoreOp>>

\* Lines 266-269, 351: the Logout button of AdminPage: clearToken() and
\* setTok(null), a state update of AdminPage alone.
Logout ==
    /\ page = "AdminPage"
    /\ localStorage' = clearToken(localStorage)
    /\ lastStoreOp' = [op |-> "clear", arg |-> ""]
    /\ ui' = [ui EXCEPT !.tok = JsNull]
    /\ wire' = NoRequest
    /\ ev' = [NoEvent EXCEPT !.op = "logout"]
    /\ UNCHANGED <<available, location, page, theme, inflight>>

----------------------------------------------------------------------------
(* The exported functions called directly *)

\* options.headers a caller may pass to apiRequest.
CallerHeaders ==
    { NoHeaders,
      [k \in {"authorization"} |-> "Basic dXNlcg=="],
      [k \in {"content-type"} |-> "text/plain"] }

\* Reading the localStorage global throws when the storage area is missing
\* or access to it is denied; none of lines 13, 19, 25 catches that.
StorageAccess == IF available THEN "-" ELSE "storage_error"

\* Lines 11-14.
CallGetToken ==
    /\ ev' = [NoEvent EXCEPT !.op = "getToken", !.error = StorageAccess,
                             !.value = IF available THEN getToken(localStorage)
                                       ELSE JsUndefined]
    /\ wire' = NoRequest
    /\ UNCHANGED <<localStorage, available, location, page, theme, ui, inflight, lastStoreOp>>

\* Lines 17-20.
CallSetToken ==
    \E c \in Tokens :
        /\ localStorage' = IF available THEN setToken(localStorage, c) ELSE localStorage
        /\ lastStoreOp' = IF available THEN [op |-> "set", arg |-> c] ELSE lastStoreOp
        /\ ev' = [NoEvent EXCEPT !.op = "setToken", !.error = StorageAccess]
        /\ wire' = NoRequest
        /\ UNCHANGED <<available, location, page, theme, ui, inflight>>

\* Lines 23-26.
CallClearToken ==
    /\ localStorage' = IF available THEN clearToken(localStorage) ELSE localStorage
    /\ lastStoreOp' = IF available THEN [op |-> "clear", arg |-> ""] ELSE lastStoreOp
    /\ ev' = [NoEvent EXCEPT !.op = "clearToken", !.error = StorageAccess]
    /\ wire' = NoRequest
    /\ UNCHANGED <<available, location, page, theme, ui, inflight>>

\* Lines 32-47: apiRequest called with the caller's own headers.  getToken
\* throwing rejects the promise before anything is sent.
CallApiRequest ==
    \E h \in CallerHeaders :
        /\ BagCardinality(inflight) < MaxInflight
        /\ wire' = IF available THEN Send(localStorage, h) ELSE NoRequest
        /\ inflight' = IF available
                       THEN inflight (+) SetToBag({Request("direct", JsUndefined)})
                       ELSE inflight
        /\ ev' = [NoEvent EXCEPT !.op = "apiRequest", !.flow = "direct",
                                 !.error = StorageAccess]
        /\ UNCHANGED <<localStorage, available, location, page, theme, ui, lastStoreOp>>

\* Lines 48-61: the request of a direct call settles.
DirectResponse ==
    \E r \in BagToSet(inflight), resp \in Responses :
        /\ r.flow = "direct"
        /\ inflight' = inflight (-) SetToBag({r})
        /\ wire' = NoRequest
        /\ ev' = Settled(r, resp)
        /\ UNCHANGED <<localStorage, available, location, page, theme, ui, lastStoreOp>>

----------------------------------------------------------------------------
(* Specifications *)

\* The application as its user drives it, in a browser whose storage area
\* is accessible (available stays TRUE).
Next ==
    \/ OpenUrl
    \/ ClickAdminLink
    \/ ToggleTheme
    \/ LoginSubmit
    \/ ContactSubmit
    \/ AdminSave
    \/ LoginResponse
    \/ ContactResponse
    \/ SaveResponse
    \/ Logout

Spec == Init /\ [][Next]_vars

\* The application together with arbitrary callers of the exported
\* getToken, setToken, clearToken and apiRequest.
NextApi ==
    \/ Next
    \/ CallGetToken
    \/ CallSetToken
    \/ CallClearToken
    \/ CallApiRequest
    \/ DirectResponse

SpecApi == Init /\ [][NextApi]_vars

\* The exported functions alone, in a browser where the storage area may be
\* unavailable for the whole session.
InitStorage ==
    \E ls \in InitStores, avail \in BOOLEAN : Loaded(ls, avail, "/")

NextStorage ==
    \/ CallGetToken
    \/ CallSetToken
    \/ CallClearToken
    \/ CallApiRequest
    \/ DirectResponse

SpecStorage == InitStorage /\ [][NextStorage]_vars

----------------------------------------------------------------------------
(* Properties *)

SubmitFlows == {"login", "contact", "save"}

\* The number of outstanding requests of a flow, by whether the component
\* that issued them is still mounted.
Outstanding(flow, live) ==
    BagCardinality([r \in {x \in BagToSet(inflight) : x.flow = flow /\ x.live = live}
                      |-> inflight[r]])

\* The page holding the form of a flow, and whether its submit control is
\* disabled.
FormPage(flow) ==
    IF flow = "login" THEN "LoginPage"
    ELSE IF flow = "save" THEN "AdminPage" ELSE "Landing"

Pending(flow) ==
    IF flow = "login" THEN LoginDisabled(ui)
    ELSE IF flow = "save" THEN SaveDisabled(ui) ELSE ContactDisabled(ui)

\* C1: the protected admin content is never displayed while the token store
\* holds no credential.
C1_NoAdminWithoutCredential ==
    page = "AdminPage" => getToken(localStorage) # JsNull

\* C2 as claimed: every outgoing request carries an Authorization header if
\* and only if a credential is stored at the moment of the call, and then its
\* value is "Bearer " followed by that credential.
C2_AuthorizationIffStored ==
    wire.sent =>
        LET t == getToken(localStorage)
            has == "authorization" \in DOMAIN wire.headers
        IN /\ has <=> t # JsNull
           /\ (has /\ t # JsNull) => wire.headers["authorization"] = "Bearer " \o t.value

\* C2 as amended: when a non-empty credential is stored at the moment of the
\* call, the outgoing request carries Authorization: "Bearer " followed by
\* that credential, whatever header the caller supplied; when the store is
\* empty or holds the empty string, apiRequest adds none and the request
\* carries exactly the Authorization header the caller supplied, if any.
C2_BearerOfCurrentToken ==
    wire.sent =>
        LET t == getToken(localStorage)
            has == "authorization" \in DOMAIN wire.headers
            given == "authorization" \in DOMAIN wire.caller
        IN IF t.type = "string" /\ t.value # ""
           THEN has /\ wire.headers["authorization"] = "Bearer " \o t.value
           ELSE /\ has <=> given
                /\ given => wire.headers["authorization"] = wire.caller["authorization"]

\* A request is sent right after the stored credential was replaced by
\* another, over a caller-supplied Authorization header, and carries the new
\* credential.
C2_Witness ==
    /\ wire.sent
    /\ "authorization" \in DOMAIN wire.caller
    /\ lastStoreOp = [op |-> "set", arg |-> "xyz"]
    /\ ui.tok = JsString("abc")
    /\ wire.headers["authorization"] = "Bearer xyz"

\* C3: when the authentication endpoint answers a login request with a
\* non-success status, login returns false and the mounted form shows
\* "Invalid credentials".
C3_HttpErrorIsDeclined ==
    (ev.op = "response" /\ ev.flow = "login" /\ ev.status = "not_ok") =>
        /\ ev.ret = "false"
        /\ ev.live => ui.loginError = "Invalid credentials"

\* C4: in a step where a login request settles with a success status and a
\* readable payload, login returns true exactly when the payload carries a
\* non-empty token field, and the store then holds that token; otherwise
\* login returns false and the store is what it was before the step.
C4_LoginOnSuccessResponse ==
    [][ (ev'.op = "response" /\ ev'.flow = "login"
            /\ ev'.status = "ok" /\ ev'.body = "parsed") =>
        LET t == ev'.token
            nonEmpty == t.type = "string" /\ t.value # ""
        IN /\ ev'.ret = "true" <=> nonEmpty
           /\ ev'.ret = "true" => getToken(localStorage') = t
           /\ ~nonEmpty => (ev'.ret = "false" /\ localStorage' = localStorage)
      ]_vars

\* A login has settled with a token in its payload and the store holds it.
C4_Witness ==
    /\ ev.op = "response" /\ ev.flow = "login" /\ ev.ret = "true"
    /\ ev.token = JsString("abc")
    /\ getToken(localStorage) = JsString("abc")

\* C5: a guard evaluation without a stored credential leaves the location at
\* /login with /admin recorded as origin; the login form's outstanding
\* request holds the origin of the location it was submitted from; and a
\* login that succeeds navigates to the origin it recorded, or to /admin
\* when it recorded none.
C5_OriginRoundTrip ==
    /\ ev.guard = "Redirecting" =>
          /\ location = [pathname |-> "/login", from |-> JsString("/admin")]
          /\ page = "LoginPage"
    /\ \A r \in BagToSet(inflight) :
          (r.flow = "login" /\ r.live) => r.origin = location.from
    /\ (ev.op = "response" /\ ev.flow = "login" /\ ev.ret = "true") =>
          location.pathname = IF ev.origin.type = "string" THEN ev.origin.value
                              ELSE "/admin"

\* A login submitted from the login page the guard redirected to has
\* succeeded and the admin page is shown at the recorded origin.
C5_Witness ==
    /\ ev.op = "response" /\ ev.flow = "login" /\ ev.ret = "true"
    /\ ev.origin = JsString("/admin")
    /\ location.pathname = "/admin"
    /\ page = "AdminPage"

\* C6: a step that evaluates the /admin guard decides from the store as it is
\* in that step: Allowed, with the admin page rendered at /admin, exactly
\* when a credential is stored, else a redirect to /login; in particular an
\* evaluation whose last store operation was logout's clearToken redirects.
C6_GuardReadsStoreAtEvaluation ==
    /\ ev.guard = "Allowed" =>
          /\ getToken(localStorage) # JsNull
          /\ page = "AdminPage" /\ location.pathname = "/admin"
    /\ ev.guard = "Redirecting" =>
          /\ getToken(localStorage) = JsNull
          /\ page = "LoginPage" /\ location.pathname = "/login"
    /\ (ev.guard # "-" /\ lastStoreOp.op = "clear") => ev.guard = "Redirecting"

\* The guard is evaluated again on a page that was Allowed, after logout,
\* and redirects.
C6_Witness ==
    /\ ev.op = "rerender"
    /\ ev.guard = "Redirecting"
    /\ lastStoreOp.op = "clear"

\* C7 as claimed: at no time are two requests of the same form outstanding.
C7_OneRequestPerForm ==
    \A f \in SubmitFlows : Outstanding(f, TRUE) + Outstanding(f, FALSE) <= 1

\* C7 as amended: at no time are two requests issued by the same mounted
\* instance of a form outstanding; while the request of the mounted form is
\* unresolved, the form is pending and its submit control disabled.
C7_OneRequestPerMountedForm ==
    \A f \in SubmitFlows :
        /\ Outstanding(f, TRUE) <= 1
        /\ Outstanding(f, TRUE) = 1 => (page = FormPage(f) /\ Pending(f))

\* The mounted login form has a request outstanding while a request of an
\* earlier instance of the form is outstanding too.
C7_Witness ==
    /\ Outstanding("login", TRUE) = 1
    /\ Outstanding("login", FALSE) = 1
    /\ LoginDisabled(ui)

\* C8: when the request of a mounted form ends in a failure (apiRequest
\* threw, or login was declined), the form has left its pending state and
\* its submit control is enabled; and a form is pending only while a request
\* of its own is outstanding.
C8_FailureLeavesPending ==
    /\ (ev.op = "response" /\ ev.flow \in SubmitFlows /\ ev.live
            /\ (ev.error # "-" \/ ev.ret = "false")) =>
          (page = FormPage(ev.flow) /\ ~Pending(ev.flow))
    /\ \A f \in SubmitFlows : Pending(f) => Outstanding(f, TRUE) = 1

\* A declined login has put the mounted form back to idle.
C8_Witness ==
    /\ ev.op = "response" /\ ev.flow = "login" /\ ev.live
    /\ ev.ret = "false"
    /\ ui.loginStatus = "idle" /\ ui.loginError = "Invalid credentials"

\* C9: getToken, setToken and clearToken raise no error, also when the
\* storage area is unavailable, and getToken then reports no token.
C9_NoFailureMode ==
    ev.op \in {"getToken", "setToken", "clearToken"} =>
        /\ ev.error = "-"
        /\ (ev.op = "getToken" /\ ~available) => ev.value = JsNull

\* C10: the store holds zero or one credential, the one under TOKEN_KEY;
\* after a setToken(c) not followed by a clearToken, getToken returns c;
\* after a clearToken not followed by a setToken, getToken returns null.
C10_StoreFollowsLastCall ==
    /\ DOMAIN localStorage \subseteq {TOKEN_KEY}
    /\ lastStoreOp.op = "set" => getToken(localStorage) = JsString(lastStoreOp.arg)
    /\ lastStoreOp.op = "clear" => getToken(localStorage) = JsNull
    /\ ev.op = "getToken" => ev.value = getToken(localStorage)

\* getToken is called after setToken('') and returns the empty string.
C10_Witness ==
    /\ ev.op = "getToken"
    /\ lastStoreOp = [op |-> "set", arg |-> ""]
    /\ ev.value = JsString("")

====
